---- MODULE Spec2Model ----
(***************************************************************************)
(* The two polling components of the trading dashboard: PriceTicker        *)
(* (useEffect with deps [priceData?.price], setInterval 2000) and          *)
(* Leaderboard (useEffect with deps [], setInterval 5000), both mounted    *)
(* and unmounted together by Dashboard.                                    *)
(*                                                                         *)
(* Optional values (T | null, and the undefined of priceData?.price) are   *)
(* sequences of length at most one: None is <<>> and Some(x) is <<x>>.     *)
(* A PriceData payload is the record [price |-> p]; the other fields of    *)
(* the payload are only displayed. A Trader is [trader_id, roi].           *)
(*                                                                         *)
(* One action is one callback: the mount and unmount of Dashboard, a tick  *)
(* of an interval, the continuation of fetchPrice / fetchLeaderboard after *)
(* its await (try or catch), and the re-run of the PriceTicker effect when *)
(* its dependency has changed.                                             *)
(*                                                                         *)
(* Route "/" mounts a new Dashboard every time it is entered, so that a    *)
(* PriceTicker and a Leaderboard instance with fresh hook state exist per  *)
(* mount. A pending request belongs to the instance whose effect or        *)
(* interval started it, and records whether that instance is still         *)
(* mounted: all unmounted instances behave alike. A continuation calls its *)
(* setters whether or not its instance is mounted; the setters of an       *)
(* unmounted instance change no state, so such a continuation changes no   *)
(* hook state and only ends the request; lateApply records that it ran.    *)
(* The hook variables hold the state of the latest instance.               *)
(***************************************************************************)
EXTENDS Integers, Sequences, FiniteSets, Bags, TLC

VARIABLES
    view,           \* "none" before the first commit, else the route: "dashboard" | "screener"
    lateApply,      \* a continuation has called the setters of an unmounted instance
    priceData,      \* PriceTicker: useState<PriceData | null>
    previousPrice,  \* PriceTicker: useState<number | null>
    priceLoading,   \* PriceTicker: loading
    priceError,     \* PriceTicker: error
    priceClosure,   \* PriceTicker: the priceData the last effect run closed over
    priceTimers,    \* PriceTicker: armed intervals, each with the fetchPrice closure it calls
    priceInflight,  \* PriceTicker: bag of pending axios.get calls
    traders,        \* Leaderboard: useState<Trader[]>
    lbLoading,      \* Leaderboard: loading
    lbError,        \* Leaderboard: error
    lbTimers,       \* Leaderboard: armed intervals
    lbInflight      \* Leaderboard: bag of pending axios.get calls

priceVars == <<priceData, previousPrice, priceLoading, priceError, priceClosure,
               priceTimers, priceInflight>>
lbVars == <<traders, lbLoading, lbError, lbTimers, lbInflight>>
vars == <<view, lateApply, priceVars, lbVars>>

(***************************************************************************)
(* Bounds of the model.                                                    *)
(***************************************************************************)
\* A tick or a mount starts a fetch only while fewer than this many requests
\* of the poller are pending.
MaxInflight == 2
\* Longest top_traders list the backend answers with.
MaxTraders == 4
\* Prices the backend answers with (non-negative numbers).
Prices == {0, 50000, 51000}

None == <<>>
Some(x) == <<x>>

PRICE_INTERVAL == 2000
LEADERBOARD_INTERVAL == 5000
PRICE_ERROR == "Failed to fetch price data"
LEADERBOARD_ERROR == "Failed to fetch leaderboard"

\* roi of a trader: the first three are the A(10), B(20), C(5) of the server order.
Roi(id) == CASE id = 1 -> 10 [] id = 2 -> 20 [] id = 3 -> 5 [] OTHER -> 20 + id
Trader(id) == [trader_id |-> id, roi |-> Roi(id)]
Ascending == [i \in 1..MaxTraders |-> Trader(i)]
\* The top_traders lists the backend answers with: the empty one, and A, B, C, ...
\* in the order of their ids, which is not the order of their roi.
ServerLists == {<<>>, Ascending}

(***************************************************************************)
(* JavaScript helpers.                                                     *)
(***************************************************************************)
\* priceData?.price : undefined (None) when priceData is null.
OptPrice(pd) == IF pd = None THEN None ELSE Some(pd[1].price)
\* x || null : null when x is undefined, null or 0.
OrNull(x) == IF x = None \/ x = Some(0) THEN None ELSE x
\* Truthiness of a number | null.
Truthy(x) == x # None /\ x # Some(0)

active == view = "dashboard"

\* The setters called by the continuation of request r take effect: the
\* component instance that started r is still mounted.
Live(r) == r.mounted

\* setInterval(fetchPrice, 2000) and setInterval(fetchLeaderboard, 5000).
PriceInterval(captured) == [captured |-> captured, delay |-> PRICE_INTERVAL]
LbInterval == [delay |-> LEADERBOARD_INTERVAL]
\* Variant: the cleanup leaves the interval armed.
ClearIntervalSkipped(timers, interval) == timers

\* clearInterval(interval): the armed intervals without the one of this effect run.
ClearInterval(timers, interval) == timers \ {interval}

\* A pending axios.get: the URL, and for fetchPrice the priceData its closure holds.
\* It is started by a mounted instance.
PriceRequest(captured) ==
    [url |-> "/api/price/BTC/USDT", captured |-> captured, mounted |-> TRUE]
LbRequest == [url |-> "/api/leaderboard", mounted |-> TRUE]
Add(bag, r) == bag (+) SetToBag({r})
Remove(bag, r) == bag (-) SetToBag({r})
\* The pending requests once the instance that started them has unmounted.
Unmounted(bag) ==
    LET off(r) == [r EXCEPT !.mounted = FALSE]
        on(r) == [r EXCEPT !.mounted = TRUE]
    IN  [q \in {off(r) : r \in BagToSet(bag)} |-> CopiesIn(q, bag) + CopiesIn(on(q), bag)]

(***************************************************************************)
(* PriceTicker.                                                            *)
(***************************************************************************)
\* One run of the effect body in a render whose priceData is pd: fetchPrice()
\* at once, then setInterval(fetchPrice, 2000). fetchPrice closes over pd.
PriceEffect(pd, timers, inflight) ==
    /\ priceInflight' = Add(inflight, PriceRequest(pd))
    /\ priceTimers' = timers \cup {PriceInterval(pd)}
    /\ priceClosure' = pd

\* A new PriceTicker instance: the initial hook state, then the effect.
PriceMount ==
    /\ priceData' = None
    /\ previousPrice' = None
    /\ priceLoading' = TRUE
    /\ priceError' = None
    /\ PriceEffect(None, priceTimers, priceInflight)

\* [priceData?.price] differs from the deps of the last effect run.
PriceDepsChanged == OptPrice(priceData) # OptPrice(priceClosure)

\* The dependency changed: the previous run's cleanup, then the effect again.
\* It runs after the render that follows the update; ticks and continuations
\* handled before that render see the state and the closures as they are.
PriceEffectRerun ==
    /\ active
    /\ PriceDepsChanged
    /\ PriceEffect(priceData, ClearInterval(priceTimers, PriceInterval(priceClosure)),
                   priceInflight)
    /\ UNCHANGED <<priceData, previousPrice, priceLoading, priceError>>
    /\ UNCHANGED <<view, lateApply, lbVars>>

\* Variant: a tick puts the ticker back into the loading state.
PriceTickSetsLoading ==
    /\ BagCardinality(priceInflight) < MaxInflight
    /\ \E interval \in priceTimers :
          priceInflight' = Add(priceInflight, PriceRequest(interval.captured))
    /\ priceLoading' = TRUE
    /\ UNCHANGED <<priceData, previousPrice, priceError, priceClosure, priceTimers>>
    /\ UNCHANGED <<view, lateApply, lbVars>>

\* The interval fires: fetchPrice of the run that armed it.
PriceTick ==
    /\ BagCardinality(priceInflight) < MaxInflight
    /\ \E interval \in priceTimers :
          priceInflight' = Add(priceInflight, PriceRequest(interval.captured))
    /\ UNCHANGED <<priceData, previousPrice, priceLoading, priceError, priceClosure,
                   priceTimers>>
    /\ UNCHANGED <<view, lateApply, lbVars>>

\* Variant: a response of a fetch started by an earlier effect run is discarded.
PriceFetchSuccessDropsStale(r, payload) ==
    /\ BagIn(r, priceInflight)
    /\ IF Live(r)
          THEN /\ UNCHANGED lateApply
               /\ IF r.captured = priceClosure
                     THEN /\ previousPrice' = OrNull(OptPrice(r.captured))
                          /\ priceData' = Some(payload)
                     ELSE UNCHANGED <<previousPrice, priceData>>
               /\ priceLoading' = FALSE
               /\ priceError' = None
          ELSE /\ lateApply' = TRUE
               /\ UNCHANGED <<previousPrice, priceData, priceLoading, priceError>>
    /\ priceInflight' = Remove(priceInflight, r)
    /\ UNCHANGED <<priceClosure, priceTimers>>
    /\ UNCHANGED <<view, lbVars>>

\* axios.get resolved with response.data = payload: the try branch of fetchPrice.
PriceFetchSuccess(r, payload) ==
    /\ BagIn(r, priceInflight)
    /\ IF Live(r)
          THEN /\ UNCHANGED lateApply
               /\ previousPrice' = OrNull(OptPrice(r.captured))
               /\ priceData' = Some(payload)
               /\ priceLoading' = FALSE
               /\ priceError' = None
          ELSE /\ lateApply' = TRUE
               /\ UNCHANGED <<previousPrice, priceData, priceLoading, priceError>>
    /\ priceInflight' = Remove(priceInflight, r)
    /\ UNCHANGED <<priceClosure, priceTimers>>
    /\ UNCHANGED <<view, lbVars>>

\* Variant: a failure blanks the ticker.
PriceFetchFailureClearsData(r) ==
    /\ BagIn(r, priceInflight)
    /\ IF Live(r)
          THEN /\ UNCHANGED lateApply
               /\ priceError' = Some(PRICE_ERROR)
               /\ priceLoading' = FALSE
               /\ priceData' = None
               /\ previousPrice' = None
          ELSE /\ lateApply' = TRUE
               /\ UNCHANGED <<previousPrice, priceData, priceLoading, priceError>>
    /\ priceInflight' = Remove(priceInflight, r)
    /\ UNCHANGED <<priceClosure, priceTimers>>
    /\ UNCHANGED <<view, lbVars>>

\* Variant: a failure stops the polling.
PriceFetchFailureGivesUp(r) ==
    /\ BagIn(r, priceInflight)
    /\ IF Live(r)
          THEN /\ UNCHANGED lateApply
               /\ priceError' = Some(PRICE_ERROR)
               /\ priceLoading' = FALSE
               /\ priceTimers' = {}
          ELSE /\ lateApply' = TRUE
               /\ UNCHANGED <<priceLoading, priceError, priceTimers>>
    /\ priceInflight' = Remove(priceInflight, r)
    /\ UNCHANGED <<priceData, previousPrice, priceClosure>>
    /\ UNCHANGED <<view, lbVars>>

\* axios.get rejected: the catch branch of fetchPrice.
PriceFetchFailure(r) ==
    /\ BagIn(r, priceInflight)
    /\ IF Live(r)
          THEN /\ UNCHANGED lateApply
               /\ priceError' = Some(PRICE_ERROR)
               /\ priceLoading' = FALSE
          ELSE /\ lateApply' = TRUE
               /\ UNCHANGED <<priceLoading, priceError>>
    /\ priceInflight' = Remove(priceInflight, r)
    /\ UNCHANGED <<priceData, previousPrice, priceClosure, priceTimers>>
    /\ UNCHANGED <<view, lbVars>>

\* The cleanup of the last effect run.
PriceUnmount ==
    /\ priceTimers' = ClearInterval(priceTimers, PriceInterval(priceClosure))
    /\ priceInflight' = Unmounted(priceInflight)
    /\ UNCHANGED <<priceData, previousPrice, priceLoading, priceError, priceClosure>>

(***************************************************************************)
(* Leaderboard.                                                            *)
(***************************************************************************)
\* A new Leaderboard instance: the initial hook state, then the effect.
LbMount ==
    /\ traders' = <<>>
    /\ lbLoading' = TRUE
    /\ lbError' = None
    /\ lbInflight' = Add(lbInflight, LbRequest)
    /\ lbTimers' = lbTimers \cup {LbInterval}

LbTick ==
    /\ BagCardinality(lbInflight) < MaxInflight
    /\ LbInterval \in lbTimers
    /\ lbInflight' = Add(lbInflight, LbRequest)
    /\ UNCHANGED <<traders, lbLoading, lbError, lbTimers>>
    /\ UNCHANGED <<view, lateApply, priceVars>>

\* The try branch of fetchLeaderboard.
LbFetchSuccess(r, top_traders) ==
    /\ BagIn(r, lbInflight)
    /\ IF Live(r)
          THEN /\ UNCHANGED lateApply
               /\ traders' = top_traders
               /\ lbLoading' = FALSE
               /\ lbError' = None
          ELSE /\ lateApply' = TRUE
               /\ UNCHANGED <<traders, lbLoading, lbError>>
    /\ lbInflight' = Remove(lbInflight, r)
    /\ UNCHANGED lbTimers
    /\ UNCHANGED <<view, priceVars>>

\* The catch branch of fetchLeaderboard.
LbFetchFailure(r) ==
    /\ BagIn(r, lbInflight)
    /\ IF Live(r)
          THEN /\ UNCHANGED lateApply
               /\ lbError' = Some(LEADERBOARD_ERROR)
               /\ lbLoading' = FALSE
          ELSE /\ lateApply' = TRUE
               /\ UNCHANGED <<lbLoading, lbError>>
    /\ lbInflight' = Remove(lbInflight, r)
    /\ UNCHANGED <<traders, lbTimers>>
    /\ UNCHANGED <<view, priceVars>>

LbUnmount ==
    /\ lbTimers' = ClearInterval(lbTimers, LbInterval)
    /\ lbInflight' = Unmounted(lbInflight)
    /\ UNCHANGED <<traders, lbLoading, lbError>>

(***************************************************************************)
(* Dashboard and the route table.                                          *)
(***************************************************************************)
\* The location becomes "/" (first commit, or the Navbar link from
\* "/screener"): a new Dashboard mounts, both components run their effects.
DashboardMount ==
    /\ view # "dashboard"
    /\ BagCardinality(priceInflight) < MaxInflight
    /\ BagCardinality(lbInflight) < MaxInflight
    /\ view' = "dashboard"
    /\ PriceMount
    /\ LbMount
    /\ UNCHANGED lateApply

\* The app is opened at "/screener": the first commit renders Screener, and no
\* Dashboard, PriceTicker or Leaderboard instance exists yet.
ScreenerFirst ==
    /\ view = "none"
    /\ view' = "screener"
    /\ UNCHANGED <<lateApply, priceVars, lbVars>>

\* Navigation to "/screener": Dashboard unmounts, both cleanups run.
DashboardUnmount ==
    /\ view = "dashboard"
    /\ view' = "screener"
    /\ PriceUnmount
    /\ LbUnmount
    /\ UNCHANGED lateApply

Init ==
    /\ view = "none"
    /\ lateApply = FALSE
    /\ priceData = None
    /\ previousPrice = None
    /\ priceLoading = TRUE
    /\ priceError = None
    /\ priceClosure = None
    /\ priceTimers = {}
    /\ priceInflight = EmptyBag
    /\ traders = <<>>
    /\ lbLoading = TRUE
    /\ lbError = None
    /\ lbTimers = {}
    /\ lbInflight = EmptyBag

PriceResolve == \E r \in BagToSet(priceInflight) : \E p \in Prices :
                    PriceFetchSuccess(r, [price |-> p])
PriceReject == \E r \in BagToSet(priceInflight) : PriceFetchFailure(r)
LbResolve == \E r \in BagToSet(lbInflight) : \E l \in ServerLists : LbFetchSuccess(r, l)
LbReject == \E r \in BagToSet(lbInflight) : LbFetchFailure(r)

Next ==
    \/ DashboardMount
    \/ ScreenerFirst
    \/ DashboardUnmount
    \/ PriceEffectRerun
    \/ PriceTick
    \/ PriceResolve
    \/ PriceReject
    \/ LbTick
    \/ LbResolve
    \/ LbReject

Spec == Init /\ [][Next]_vars
(***************************************************************************)
(* PriceTicker render: the delta shown next to the price.                  *)
(***************************************************************************)
\* The ternary condition priceData && previousPrice.
HasDelta == priceData # None /\ Truthy(previousPrice)

priceChange == IF HasDelta THEN priceData[1].price - previousPrice[1] ELSE 0

Abs(n) == IF n < 0 THEN -n ELSE n
Pad2(n) == IF n < 10 THEN "0" \o ToString(n) ELSE ToString(n)

(***************************************************************************)
(* Numbers are IEEE-754 doubles. The quotient and the product of the       *)
(* percentage are each rounded to 53 significant bits, ties to even, and   *)
(* toFixed(2) rounds the exact value of the resulting double. A non-zero   *)
(* double is [neg, m, e]: m is five limbs, most significant first, the     *)
(* last four below LIMB, and its magnitude is                              *)
(*   (m[1]*2^52 + m[2]*2^39 + m[3]*2^26 + m[4]*2^13 + m[5]) * 2^(e - 52).  *)
(* Operands below 2^17 in magnitude and percentages below 2^30 hundredths  *)
(* are handled.                                                            *)
(***************************************************************************)
LIMB == 8192
RECURSIVE Pow2(_)
Pow2(n) == IF n = 0 THEN 1 ELSE 2 * Pow2(n - 1)
RECURSIVE BitLen(_)
BitLen(n) == IF n = 0 THEN 0 ELSE 1 + BitLen(n \div 2)
\* Carries propagated towards the first limb.
Carry(m) ==
    LET c5 == m[5] \div LIMB
        c4 == (m[4] + c5) \div LIMB
        c3 == (m[3] + c4) \div LIMB
        c2 == (m[2] + c3) \div LIMB
    IN  <<m[1] + c2, (m[2] + c3) % LIMB, (m[3] + c4) % LIMB, (m[4] + c5) % LIMB,
          m[5] % LIMB>>
\* The limbs times a small integer.
Scaled(m, k) == Carry([i \in 1..5 |-> m[i] * k])
\* The limbs rounded to 53 significant bits, a tie going to the even mantissa.
Round53(m) ==
    LET g == BitLen(m[1]) - 1
        low == m[5] % Pow2(g)
        half == Pow2(g) \div 2
        up == low > half \/ (low = half /\ g > 0 /\ (m[5] \div Pow2(g)) % 2 = 1)
    IN  Carry(<<m[1], m[2], m[3], m[4], m[5] - low + (IF up THEN Pow2(g) ELSE 0)>>)
\* a / b for integers a and b > 0.
RECURSIVE Log2(_, _)
Log2(a, b) == IF a >= 2 * b THEN 1 + Log2(a, 2 * b)
              ELSE IF a < b THEN Log2(2 * a, b) - 1
              ELSE 0
Divide(a, b) ==
    IF a = 0 THEN [neg |-> FALSE, m |-> <<0, 0, 0, 0, 0>>, e |-> 0] ELSE
    LET e == Log2(Abs(a), b)
        n == IF e < 0 THEN Abs(a) * Pow2(-e) ELSE Abs(a)
        d == IF e > 0 THEN b * Pow2(e) ELSE b
        r0 == n - d
        r1 == (r0 * LIMB) % d
        r2 == (r1 * LIMB) % d
        r3 == (r2 * LIMB) % d
        q4 == (r3 * LIMB) \div d
        r4 == (r3 * LIMB) % d
        up == 2 * r4 > d \/ (2 * r4 = d /\ q4 % 2 = 1)
    IN  [neg |-> a < 0,
         m |-> Carry(<<1, (r0 * LIMB) \div d, (r1 * LIMB) \div d, (r2 * LIMB) \div d,
                       q4 + (IF up THEN 1 ELSE 0)>>),
         e |-> e]
\* x * k for a small integer k > 0.
Times(x, k) == [x EXCEPT !.m = IF x.m[1] = 0 THEN x.m ELSE Round53(Scaled(x.m, k))]
\* The integer part of limbs * 2^(-j).
Shr(m, j) ==
    LET part(w, s) == IF s >= j THEN w * Pow2(s - j)
                      ELSE IF j - s > 30 THEN 0 ELSE w \div Pow2(j - s)
    IN  part(m[1], 52) + part(m[2], 39) + part(m[3], 26) + part(m[4], 13) + part(m[5], 0)
\* x.toFixed(2): the integer n with n / 100 nearest to |x|, the larger of two,
\* written with two decimals and the sign of x.
ToFixed2(x) ==
    LET w == Scaled(x.m, 100)
        t == 52 - x.e
        n == Shr(w, t) + (Shr(w, t - 1) % 2)
    IN  (IF x.neg THEN "-" ELSE "") \o ToString(n \div 100) \o "." \o Pad2(n % 100)

\* Variant: the percentage is taken of the current price.
priceChangePercentOfCurrent ==
    IF HasDelta /\ priceData[1].price # 0
    THEN ToFixed2(Times(Divide(priceChange, priceData[1].price), 100)) ELSE "0.00"

\* ((priceChange / previousPrice) * 100).toFixed(2)
priceChangePercent ==
    IF HasDelta THEN ToFixed2(Times(Divide(priceChange, previousPrice[1]), 100)) ELSE "0.00"

isPositive == priceChange >= 0

\* {priceData && ( ... {previousPrice !== null && ( <TrendingUp/Down> ...)} )}
IndicatorShown == priceData # None /\ previousPrice # None
IndicatorIcon == IF isPositive THEN "TrendingUp" ELSE "TrendingDown"

(***************************************************************************)
(* Leaderboard render.                                                     *)
(***************************************************************************)
getRankIcon(index) ==
    CASE index = 0 -> [kind |-> "icon", className |-> "w-5 h-5 text-yellow-400"]
      [] index = 1 -> [kind |-> "icon", className |-> "w-5 h-5 text-slate-400"]
      [] index = 2 -> [kind |-> "icon", className |-> "w-5 h-5 text-amber-600"]
      [] OTHER -> [kind |-> "text", text |-> "#" \o ToString(index + 1)]

\* Variant: the client ranks the traders by roi, highest first.
RowsSortedByRoi(list) ==
    LET ts == {list[i] : i \in 1..Len(list)}
        nth(i) == CHOOSE t \in ts : Cardinality({u \in ts : u.roi > t.roi}) = i - 1
    IN  [i \in 1..Len(list) |-> [key |-> nth(i).trader_id, trader |-> nth(i),
                                 rank |-> getRankIcon(i - 1)]]

\* traders.map((trader, index) => row): row i (one-based here) is index i - 1.
RowsOf(list) ==
    [i \in 1..Len(list) |-> [key |-> list[i].trader_id, trader |-> list[i],
                             rank |-> getRankIcon(i - 1)]]

RenderedRows == IF Len(traders) > 0 THEN RowsOf(traders) ELSE <<>>
(***************************************************************************)
(* Liveness is checked with the backend answering from two prices and one  *)
(* list. Fairness: an armed interval keeps firing, a pending effect        *)
(* re-run is flushed, and the backend eventually answers a pending         *)
(* request with a payload.                                                 *)
(***************************************************************************)
LivePrices == {50000, 51000}
LiveLists == {Ascending}

LivePriceResolve == \E r \in BagToSet(priceInflight) : \E p \in LivePrices :
                        PriceFetchSuccess(r, [price |-> p])
LiveLbResolve == \E r \in BagToSet(lbInflight) : \E l \in LiveLists : LbFetchSuccess(r, l)

LiveNext ==
    \/ DashboardMount
    \/ ScreenerFirst
    \/ DashboardUnmount
    \/ PriceEffectRerun
    \/ PriceTick
    \/ LivePriceResolve
    \/ PriceReject
    \/ LbTick
    \/ LiveLbResolve
    \/ LbReject

FairSpec ==
    /\ Init
    /\ [][LiveNext]_vars
    /\ WF_vars(PriceTick)
    /\ WF_vars(LbTick)
    /\ WF_vars(PriceEffectRerun)
    /\ SF_vars(LivePriceResolve)
    /\ SF_vars(LiveLbResolve)

(***************************************************************************)
(* Properties.                                                             *)
(***************************************************************************)
PriceStarted == BagCardinality(priceInflight') > BagCardinality(priceInflight)
LbStarted == BagCardinality(lbInflight') > BagCardinality(lbInflight)
\* A step that ends a pending request: the continuation of a fetch has run.
PriceEnded == BagCardinality(priceInflight') < BagCardinality(priceInflight)
LbEnded == BagCardinality(lbInflight') < BagCardinality(lbInflight)
PricePending == priceInflight # EmptyBag
LbPending == lbInflight # EmptyBag
pollState == <<priceData, previousPrice, priceLoading, priceError,
               traders, lbLoading, lbError>>

\* C1: every successful price fetch applied to the mounted ticker leaves in
\* previousPrice the price that priceData held just before it, and leaves it
\* absent only when there was none.
C1_PreviousIsPriorCurrent ==
    [][\A r \in BagToSet(priceInflight) : \A p \in Prices :
          r.mounted /\ PriceFetchSuccess(r, [price |-> p])
             => previousPrice' = OptPrice(priceData)]_vars

\* C2: a failed fetch of either poller leaves priceData, previousPrice and traders
\* as they were; applied to the mounted poller it sets the error message and
\* clears the loading flag.
C2_FailureKeepsData ==
    [][/\ priceData' # priceData \/ previousPrice' # previousPrice => ~PriceReject
       /\ traders' # traders => ~LbReject
       /\ PriceEnded /\ (priceError' # Some(PRICE_ERROR) \/ priceLoading') =>
             \A r \in BagToSet(priceInflight) : r.mounted => ~PriceFetchFailure(r)
       /\ LbEnded /\ (lbError' # Some(LEADERBOARD_ERROR) \/ lbLoading') =>
             \A r \in BagToSet(lbInflight) : r.mounted => ~LbFetchFailure(r)]_vars

\* Data of an earlier success is shown alongside the error, in both pollers.
C2_Witness ==
    /\ priceError # None /\ priceData # None /\ previousPrice # None
    /\ lbError # None /\ Len(traders) > 0

\* C3: a successful response applied to the mounted poller becomes the current
\* value and clears the error, whichever effect run started its fetch, and
\* nothing else changes the current value of that poller (a new mount starts
\* from the empty one): it is the payload of the last successful completion.
C3_SuccessOverwrites ==
    [][/\ PriceEnded =>
             \A p \in Prices :
                priceData' # Some([price |-> p]) \/ priceError' # None =>
                   \A r \in BagToSet(priceInflight) :
                      r.mounted => ~PriceFetchSuccess(r, [price |-> p])
       /\ LbEnded =>
             \A l \in ServerLists :
                traders' # l \/ lbError' # None =>
                   \A r \in BagToSet(lbInflight) : r.mounted => ~LbFetchSuccess(r, l)
       /\ priceData' # priceData => PriceResolve \/ DashboardMount
       /\ traders' # traders => LbResolve \/ DashboardMount]_vars

\* A response of a fetch started by the mount-time effect run was applied after
\* the effect had re-run for a later price, and overwrote that price.
C3_Witness ==
    /\ priceClosure = Some([price |-> 50000])
    /\ priceData = Some([price |-> 51000])
    /\ previousPrice = None
    /\ priceError = None
    /\ Len(traders) > 0 /\ lbError = None

\* C4: the apply step of a completion is guarded by an activeness check: no
\* continuation calls the setters of a poller that has been deactivated.
C4_ApplyGuarded == ~lateApply

\* C5: each poller has at most one armed interval, none once unmounted, and
\* while it is unmounted no fetch is started and no poll state changes.
C5_NoOrphanedTimers ==
    /\ [](/\ Cardinality(priceTimers) <= 1
          /\ Cardinality(lbTimers) <= 1
          /\ view = "screener" => priceTimers = {} /\ lbTimers = {})
    /\ [][view = "screener" /\ view' = "screener"
             => ~PriceStarted /\ ~LbStarted /\ UNCHANGED pollState]_vars

\* Unmounted after the price effect had re-run, with fetches still pending.
C5_Witness ==
    /\ view = "screener"
    /\ priceClosure # None
    /\ priceTimers = {} /\ lbTimers = {}
    /\ PricePending /\ LbPending

\* C6: a fetch is started only by the activation or by a tick of the interval.
C6_FetchOnlyOnMountOrTick ==
    [][PriceStarted \/ LbStarted => DashboardMount \/ PriceTick \/ LbTick]_vars

\* C7 as stated: a tick returns the poller to the loading state, so that the
\* poller is loading while the fetch the tick started is in flight.
C7_LoadingOnTick ==
    [][/\ PriceTick => priceLoading'
       /\ LbTick => lbLoading']_vars

\* C7 as the code has it: loading is true from the construction of a poller
\* (its mount), every completion applied to the mounted poller sets it false,
\* and no other step (a tick included) changes it: a step that sets it true is
\* a mount, a step that clears it is a completion, and a tick leaves it alone.
C7_LoadingUntilFirstCompletion ==
    /\ [](view = "none" => priceLoading /\ lbLoading)
    /\ [][/\ DashboardMount => priceLoading' /\ lbLoading'
          /\ ~priceLoading /\ priceLoading' => DashboardMount
          /\ ~lbLoading /\ lbLoading' => DashboardMount
          /\ priceLoading /\ ~priceLoading' => PriceResolve \/ PriceReject
          /\ lbLoading /\ ~lbLoading' => LbResolve \/ LbReject
          /\ priceLoading' /\ PriceEnded =>
                \A r \in BagToSet(priceInflight) :
                   r.mounted => /\ ~PriceFetchFailure(r)
                                /\ \A p \in Prices : ~PriceFetchSuccess(r, [price |-> p])
          /\ lbLoading' /\ LbEnded =>
                \A r \in BagToSet(lbInflight) :
                   r.mounted => /\ ~LbFetchFailure(r)
                                /\ \A l \in ServerLists : ~LbFetchSuccess(r, l)
          /\ priceLoading' # priceLoading => ~PriceTick
          /\ lbLoading' # lbLoading => ~LbTick]_vars

\* With the dashboard mounted and no effect re-run due, as many fetches as the
\* ticks can start are pending in each poller, and neither poller is loading.
C7_Witness ==
    /\ active /\ ~PriceDepsChanged
    /\ \A r \in BagToSet(priceInflight) \cup BagToSet(lbInflight) : r.mounted
    /\ BagCardinality(priceInflight) = MaxInflight /\ ~priceLoading
    /\ BagCardinality(lbInflight) = MaxInflight /\ ~lbLoading

\* C8: without a previous price the delta is 0, the percentage "0.00", the sign
\* positive and no indicator is shown; with one the delta is current - previous,
\* the percentage is the two-decimal numeral nearest delta / previous * 100, the
\* sign is positive exactly when delta >= 0, and the indicator is shown.
TwoDecimals(neg, h) ==
    (IF neg THEN "-" ELSE "") \o ToString(h \div 100) \o "."
        \o ToString((h % 100) \div 10) \o ToString(h % 10)
C8_Delta ==
    /\ previousPrice = None =>
          /\ priceChange = 0
          /\ priceChangePercent = "0.00"
          /\ isPositive
          /\ ~IndicatorShown
    /\ previousPrice # None =>
          LET prev == previousPrice[1]
              delta == priceData[1].price - prev
              q == (Abs(delta) * 10000) \div prev
          IN  /\ priceChange = delta
              /\ \E h \in {q, q + 1} :
                    /\ 2 * Abs(h * prev - Abs(delta) * 10000) <= prev
                    /\ priceChangePercent = TwoDecimals(delta < 0, h)
              /\ isPositive <=> delta >= 0
              /\ IndicatorShown
              /\ IndicatorIcon = IF delta >= 0 THEN "TrendingUp" ELSE "TrendingDown"
    /\ previousPrice = Some(50000) /\ priceData = Some([price |-> 51000])
          => priceChangePercent = "2.00"

\* previous = 50000 and current = 51000 are on display as "2.00", positive.
C8_Witness ==
    /\ previousPrice = Some(50000)
    /\ priceData = Some([price |-> 51000])
    /\ priceChangePercent = "2.00"
    /\ isPositive

\* C9: after a successful leaderboard fetch row i shows the i-th entry of the
\* server's list, with an icon badge (three distinct ones) for indices 0, 1, 2
\* and the text "#" index+1 from index 3 on.
C9_ServerOrderAndBadges ==
    [][LbEnded => \A r \in BagToSet(lbInflight) : \A l \in ServerLists :
          r.mounted /\ LbFetchSuccess(r, l) =>
             LET rows == RenderedRows'
             IN  /\ Len(rows) = Len(l)
                 /\ \A i \in 1..Len(l) :
                       /\ rows[i].trader = l[i]
                       /\ i <= 3 => rows[i].rank.kind = "icon"
                       /\ i > 3 => rows[i].rank = [kind |-> "text", text |-> "#" \o ToString(i)]
                       /\ i = 4 => rows[i].rank.text = "#4"
                       /\ \A j \in 1..Len(l) :
                             (i < j /\ j <= 3) => rows[i].rank # rows[j].rank
      ]_vars

\* Four rows in an order that is not the roi order, the fourth badged "#4".
C9_Witness ==
    /\ Len(traders) >= 4
    /\ traders[1].roi < traders[2].roi
    /\ RenderedRows[2].trader = traders[2]
    /\ RenderedRows[4].rank = [kind |-> "text", text |-> "#4"]

\* C10: a mounted poller always has its interval armed, a failure starts no fetch
\* of its own, an error message is cleared only by a successful completion (or
\* with the poller, when the dashboard is mounted anew), and with the interval
\* firing and the backend eventually answering, an error message is eventually
\* cleared (or the dashboard is left): a later fetch is started and succeeds.
C10_ErrorRecovery ==
    /\ [](active => priceTimers # {} /\ lbTimers # {})
    /\ [][/\ PriceStarted => ~PriceReject
          /\ LbStarted => ~LbReject
          /\ priceError # None /\ priceError' = None => LivePriceResolve \/ DashboardMount
          /\ lbError # None /\ lbError' = None => LiveLbResolve \/ DashboardMount]_vars
    /\ (active /\ priceError # None) ~> (priceError = None \/ ~active)
    /\ (active /\ lbError # None) ~> (lbError = None \/ ~active)

\* With the dashboard mounted and an error on display in both pollers, fetches
\* are pending again.
C10_Witness ==
    /\ active
    /\ priceError # None /\ PricePending
    /\ lbError # None /\ LbPending
====
